---- MODULE Spec2Model ----
(***************************************************************************)
(* Model of math-optimizer: main.py (parse_line_set, process_file, main),  *)
(* parser.py (MathExtractor) and optimizer.py (MathOptimizer).             *)
(***************************************************************************)
EXTENDS Integers, Sequences, FiniteSets, TLC

VARIABLES
    spec,        \* parse_line_set: the argument string, a sequence of characters
    lines,       \* parse_line_set: what the call produced (NotCalled before it)
    opt_tree,    \* optimize_tree: the tree it is given
    opt_expand,  \* MathOptimizer.expand_polynomials
    opt_result,  \* optimize_tree: the outcome of the walk (NotRun before it)
    argv,        \* main: the command line options
    disk,        \* the files under the target, path -> text
    disk0,       \* the files as they were when main was started
    pc,          \* main: "start", "loop" (in the for loop), "done" or "crashed"
    lines_set,   \* main: the parsed --diff-lines
    paths,       \* main: the sorted paths
    idx,         \* main: index in paths of the next file
    console,     \* what console.print has shown, in order
    processed,   \* the paths process_file was called with, in order
    last         \* what the last process_file call computed

lineVars == <<spec, lines>>

optVars == <<opt_tree, opt_expand, opt_result>>

mainVars == <<argv, disk, disk0, pc, lines_set, paths, idx, console, processed, last>>

vars == <<lineVars, optVars, mainVars>>

(***************************************************************************)
(* Bounds.                                                                 *)
(***************************************************************************)
MaxSpecLen == 5

\* Most binary operations in one expression given to optimize_tree.
MaxBinOps == 3

\* Most files under the target directory.
MaxFiles == 2

(***************************************************************************)
(* Strings of the --diff-lines option, character by character.             *)
(***************************************************************************)
Digits == {"2", "5", "7"}

SpecChars == Digits \cup {"-", ",", " ", "x"}

DigitVal(c) ==
    CASE c = "0" -> 0 [] c = "1" -> 1 [] c = "2" -> 2 [] c = "3" -> 3
      [] c = "4" -> 4 [] c = "5" -> 5 [] c = "6" -> 6 [] c = "7" -> 7
      [] c = "8" -> 8 [] c = "9" -> 9

IsDigit(c) == c \in {"0", "1", "2", "3", "4", "5", "6", "7", "8", "9"}

\* str.strip(): leading and trailing blanks removed.
RECURSIVE LStrip(_)
LStrip(s) == IF s # <<>> /\ Head(s) = " " THEN LStrip(Tail(s)) ELSE s

RECURSIVE RStrip(_)
RStrip(s) ==
    IF s # <<>> /\ s[Len(s)] = " " THEN RStrip(SubSeq(s, 1, Len(s) - 1)) ELSE s

Strip(s) == RStrip(LStrip(s))

\* Index of the first occurrence of character c in s, 0 when there is none.
RECURSIVE FindFrom(_, _, _)
FindFrom(s, c, i) ==
    IF i > Len(s) THEN 0
    ELSE IF s[i] = c THEN i
    ELSE FindFrom(s, c, i + 1)

Find(s, c) == FindFrom(s, c, 1)

\* str.split(sep): the pieces between the separators, empty pieces kept.
RECURSIVE Split(_, _)

SplitAt(s, sep, i) ==
    IF i = 0 THEN <<s>>
    ELSE <<SubSeq(s, 1, i - 1)>> \o Split(SubSeq(s, i + 1, Len(s)), sep)

Split(s, sep) == SplitAt(s, sep, Find(s, sep))

\* The value of a non-empty run of decimal digits.
RECURSIVE DigitsVal(_)
DigitsVal(s) ==
    IF s = <<>> THEN 0
    ELSE 10 * DigitsVal(SubSeq(s, 1, Len(s) - 1)) + DigitVal(s[Len(s)])

\* int(s): blanks around the literal are ignored, one leading sign is allowed,
\* the rest must be a non-empty run of digits; anything else raises ValueError.
Literal(d, sign) ==
    IF d # <<>> /\ \A i \in 1..Len(d) : IsDigit(d[i])
    THEN [ok |-> TRUE, val |-> sign * DigitsVal(d)]
    ELSE [ok |-> FALSE, val |-> 0]

Signed(t) == IF t # <<>> /\ Head(t) = "-" THEN Literal(Tail(t), -1) ELSE Literal(t, 1)

IntOf(s) == Signed(Strip(s))

ValueError == [ok |-> FALSE, lines |-> {}]

\* range(a, b): the upper end left out.
RangeExclusive(a, b) == a .. (b - 1)

\* range(int(a), int(b) + 1)
RangeBounds(a, b) == a .. b

\* lines.update(range(int(a), int(b) + 1))
RangeOf(a, b) ==
    IF a.ok /\ b.ok THEN [ok |-> TRUE, lines |-> RangeBounds(a.val, b.val)] ELSE ValueError

\* lines.add(int(part))
SingleOf(n) == IF n.ok THEN [ok |-> TRUE, lines |-> {n.val}] ELSE ValueError

\* The body of the for loop of parse_line_set for one part: the integers the
\* part adds to lines, or ValueError.
\* part is stripped; i is the index of its first "-", 0 when it has none.
PartOf(part, i) ==
    IF part = <<>> THEN [ok |-> TRUE, lines |-> {}]
    ELSE IF i # 0
    THEN RangeOf(IntOf(SubSeq(part, 1, i - 1)), IntOf(SubSeq(part, i + 1, Len(part))))
    ELSE SingleOf(IntOf(part))

Stripped(part) == PartOf(part, Find(part, "-"))

PartLines(rawpart) == Stripped(Strip(rawpart))

RECURSIVE ParseParts(_, _)

PartsOf(rest, acc, r) ==
    IF r.ok THEN ParseParts(rest, acc \cup r.lines) ELSE ValueError

ParseParts(parts, acc) ==
    IF parts = <<>> THEN [ok |-> TRUE, lines |-> acc]
    ELSE PartsOf(Tail(parts), acc, PartLines(Head(parts)))

parse_line_set(s) == ParseParts(Split(s, ","), {})

(***************************************************************************)
(* Source text.  A file is a sequence of lines; a line is its indentation  *)
(* level and its lexical tokens (blanks between tokens carry no meaning).  *)
(***************************************************************************)
NameTok(s) == [t |-> "NAME", s |-> s, v |-> 0]

NumTok(v) == [t |-> "NUMBER", s |-> "", v |-> v]

OpTok(s) == [t |-> "OP", s |-> s, v |-> 0]

StrTok(s) == [t |-> "STRING", s |-> s, v |-> 0]

Line(indent, toks) == [indent |-> indent, toks |-> toks]

Keywords == {"def"}

(***************************************************************************)
(* Syntax trees (the ast module's node classes, by their field names).     *)
(***************************************************************************)
Nil == [kind |-> "Nil"]

Name(id) == [kind |-> "Name", id |-> id]

Constant(value) == [kind |-> "Constant", value |-> value]

Str(s) == [kind |-> "Str", s |-> s]

BinOp(left, op, right) == [kind |-> "BinOp", left |-> left, op |-> op, right |-> right]

Call(func, args) == [kind |-> "Call", func |-> func, args |-> args]

Attribute(base, attr) == [kind |-> "Attribute", base |-> base, attr |-> attr]

Tuple(elts) == [kind |-> "Tuple", elts |-> elts]

Assign(targets, value, lineno) ==
    [kind |-> "Assign", targets |-> targets, value |-> value, lineno |-> lineno]

Expr(value, lineno) == [kind |-> "Expr", value |-> value, lineno |-> lineno]

FunctionDef(name, body, lineno) ==
    [kind |-> "FunctionDef", name |-> name, body |-> body, lineno |-> lineno]

Module(body) == [kind |-> "Module", body |-> body]

OpOfTok(s) ==
    CASE s = "+" -> "Add" [] s = "-" -> "Sub" [] s = "*" -> "Mult"
      [] s = "/" -> "Div" [] s = "**" -> "Pow"

TokOfOp(op) ==
    CASE op = "Add" -> "+" [] op = "Sub" -> "-" [] op = "Mult" -> "*"
      [] op = "Div" -> "/" [] op = "Pow" -> "**"

(***************************************************************************)
(* ast.parse on expressions: recursive descent over the tokens.  A result  *)
(* is [ok, node, pos]: pos is the index of the first token not consumed.   *)
(***************************************************************************)
NoParse == [ok |-> FALSE, node |-> Nil, pos |-> 0]
Parsed(node, pos) == [ok |-> TRUE, node |-> node, pos |-> pos]
IsOp(toks, i, s) == i <= Len(toks) /\ toks[i].t = "OP" /\ toks[i].s = s

RECURSIVE ParseArith(_, _)
RECURSIVE ParseArithRest(_, _, _)
RECURSIVE ParseTermRest(_, _, _)
RECURSIVE ParsePower(_, _)
RECURSIVE ParseTrailers(_, _, _)
RECURSIVE ParseElts(_, _, _)

\* e parsed up to a closing parenthesis.
Closed(toks, e) ==
    IF e.ok /\ IsOp(toks, e.pos, ")") THEN Parsed(e.node, e.pos + 1) ELSE NoParse

AtomOf(toks, i, tok) ==
    CASE tok.t = "NAME" -> IF tok.s \in Keywords THEN NoParse ELSE Parsed(Name(tok.s), i + 1)
      [] tok.t = "NUMBER" -> Parsed(Constant(tok.v), i + 1)
      [] tok.t = "STRING" -> Parsed(Str(tok.s), i + 1)
      [] OTHER -> IF tok.s = "(" THEN Closed(toks, ParseElts(toks, <<>>, i + 1)) ELSE NoParse

ParseAtom(toks, i) == IF i > Len(toks) THEN NoParse ELSE AtomOf(toks, i, toks[i])

CallOf(toks, func, a) ==
    IF a.ok THEN ParseTrailers(toks, Call(func, <<a.node>>), a.pos) ELSE NoParse

ParseTrailers(toks, node, i) ==
    IF IsOp(toks, i, ".")
    THEN IF i + 1 <= Len(toks) /\ toks[i + 1].t = "NAME" /\ toks[i + 1].s \notin Keywords
         THEN ParseTrailers(toks, Attribute(node, toks[i + 1].s), i + 2)
         ELSE NoParse
    ELSE IF IsOp(toks, i, "(")
    THEN IF IsOp(toks, i + 1, ")")
         THEN ParseTrailers(toks, Call(node, <<>>), i + 2)
         ELSE CallOf(toks, node, Closed(toks, ParseArith(toks, i + 1)))
    ELSE Parsed(node, i)

PrimaryOf(toks, a) == IF a.ok THEN ParseTrailers(toks, a.node, a.pos) ELSE NoParse

ParsePrimary(toks, i) == PrimaryOf(toks, ParseAtom(toks, i))

BinOpOf(left, op, r) == IF r.ok THEN Parsed(BinOp(left, op, r.node), r.pos) ELSE NoParse

\* power: primary ['**' power]  (right-associative, binds tighter than * and /)
PowerOf(toks, p) ==
    IF ~p.ok THEN NoParse
    ELSE IF IsOp(toks, p.pos, "**") THEN BinOpOf(p.node, "Pow", ParsePower(toks, p.pos + 1))
    ELSE p

ParsePower(toks, i) == PowerOf(toks, ParsePrimary(toks, i))

\* term: power (('*' | '/') power)*  (left-associative)
TermRestOf(toks, l) == IF l.ok THEN ParseTermRest(toks, l.node, l.pos) ELSE NoParse

ParseTermRest(toks, left, i) ==
    IF IsOp(toks, i, "*") \/ IsOp(toks, i, "/")
    THEN TermRestOf(toks, BinOpOf(left, OpOfTok(toks[i].s), ParsePower(toks, i + 1)))
    ELSE Parsed(left, i)

ParseTerm(toks, i) == TermRestOf(toks, ParsePower(toks, i))

\* arith: term (('+' | '-') term)*  (left-associative)
ArithRestOf(toks, l) == IF l.ok THEN ParseArithRest(toks, l.node, l.pos) ELSE NoParse

ParseArithRest(toks, left, i) ==
    IF IsOp(toks, i, "+") \/ IsOp(toks, i, "-")
    THEN ArithRestOf(toks, BinOpOf(left, OpOfTok(toks[i].s), ParseTerm(toks, i + 1)))
    ELSE Parsed(left, i)

ParseArith(toks, i) == ArithRestOf(toks, ParseTerm(toks, i))

\* An expression list: expr (',' expr)*; more than one expression is a Tuple.
EltsOf(toks, elts, e) ==
    IF ~e.ok THEN NoParse
    ELSE IF IsOp(toks, e.pos, ",") THEN ParseElts(toks, Append(elts, e.node), e.pos + 1)
    ELSE IF elts = <<>> THEN e
    ELSE Parsed(Tuple(Append(elts, e.node)), e.pos)

ParseElts(toks, elts, i) == EltsOf(toks, elts, ParseArith(toks, i))

\* A whole token sequence as one expression (list): every token is consumed.
Whole(toks, e) == IF e.ok /\ e.pos = Len(toks) + 1 THEN e ELSE NoParse

ParseExpression(toks) == Whole(toks, ParseElts(toks, <<>>, 1))

(***************************************************************************)
(* ast.parse on a file: one statement per line, a def header followed by   *)
(* its indented body.  lineno is the index of the statement's line.        *)
(***************************************************************************)
RECURSIVE IsTarget(_)
IsTarget(node) ==
    \/ node.kind \in {"Name", "Attribute"}
    \/ node.kind = "Tuple" /\ \A k \in 1..Len(node.elts) : IsTarget(node.elts[k])

SyntaxError == [ok |-> FALSE, tree |-> Nil]

\* es: the parsed pieces of a line between its "=" tokens, the last one the
\* value (or the bare expression), the others the targets.
SimpleOf(es, n, lineno) ==
    IF \E k \in 1..n : ~es[k].ok THEN SyntaxError
    ELSE IF n = 1 THEN [ok |-> TRUE, tree |-> Expr(es[1].node, lineno)]
    ELSE IF \E k \in 1..(n - 1) : ~IsTarget(es[k].node) THEN SyntaxError
    ELSE [ok |-> TRUE,
          tree |-> Assign([k \in 1..(n - 1) |-> es[k].node], es[n].node, lineno)]

ParseSegments(segs) == [k \in 1..Len(segs) |-> ParseExpression(segs[k])]

\* A simple statement: target = ... = value, or a bare expression.
ParseSimple(toks, lineno) ==
    SimpleOf(ParseSegments(Split(toks, OpTok("="))), Len(Split(toks, OpTok("="))), lineno)

IsDefHeader(toks) ==
    /\ Len(toks) = 5
    /\ toks[1] = NameTok("def")
    /\ toks[2].t = "NAME" /\ toks[2].s \notin Keywords
    /\ toks[3] = OpTok("(") /\ toks[4] = OpTok(")") /\ toks[5] = OpTok(":")

\* The index after the last line of the indented block that starts at line i.
RECURSIVE BlockEnd(_, _)
BlockEnd(src, i) ==
    IF i <= Len(src) /\ src[i].indent = 1 THEN BlockEnd(src, i + 1) ELSE i

RECURSIVE ParseStmts(_, _, _)

\* A def at line i whose block ends before line j; body: its parsed statements.
DefOf(src, i, j, acc, body) ==
    IF ~IsDefHeader(src[i].toks) \/ j = i + 1 \/ \E k \in 1..(j - i - 1) : ~body[k].ok
    THEN SyntaxError
    ELSE ParseStmts(src, j,
           Append(acc, FunctionDef(src[i].toks[2].s,
                                   [k \in 1..(j - i - 1) |-> body[k].tree], i)))

ParseBlock(src, i, j) == [k \in 1..(j - i - 1) |-> ParseSimple(src[i + k].toks, i + k)]

DefAt(src, i, j, acc) == DefOf(src, i, j, acc, ParseBlock(src, i, j))

StmtOf(src, i, acc, st) ==
    IF st.ok THEN ParseStmts(src, i + 1, Append(acc, st.tree)) ELSE SyntaxError

ParseStmts(src, i, acc) ==
    IF i > Len(src) THEN [ok |-> TRUE, tree |-> Module(acc)]
    ELSE IF src[i].toks = <<>> THEN ParseStmts(src, i + 1, acc)
    ELSE IF src[i].indent # 0 THEN SyntaxError
    ELSE IF src[i].toks[1] = NameTok("def") THEN DefAt(src, i, BlockEnd(src, i + 1), acc)
    ELSE StmtOf(src, i, acc, ParseSimple(src[i].toks, i))

ast_parse(src) == ParseStmts(src, 1, <<>>)

(***************************************************************************)
(* ast.unparse: a tree back to text, with the parentheses the operator     *)
(* precedences require.                                                    *)
(***************************************************************************)
\* ast._Precedence, lowest to highest binding.
Prec(level) ==
    CASE level = "Tuple" -> 0 [] level = "Test" -> 1 [] level = "Arith" -> 2
      [] level = "Term" -> 3 [] level = "Power" -> 4 [] level = "Atom" -> 5

Precedence(node) ==
    CASE node.kind = "BinOp" ->
            (CASE node.op \in {"Add", "Sub"} -> Prec("Arith")
               [] node.op \in {"Mult", "Div"} -> Prec("Term")
               [] node.op = "Pow" -> Prec("Power"))
      [] node.kind = "Tuple" -> Prec("Tuple")
      [] OTHER -> Prec("Atom")

RECURSIVE Flatten(_)
Flatten(seqs) == IF seqs = <<>> THEN <<>> ELSE Head(seqs) \o Flatten(Tail(seqs))

Delimit(needed, body) ==
    IF needed THEN <<OpTok("(")>> \o body \o <<OpTok(")")>> ELSE body

RECURSIVE UnparseExpr(_, _)

UnparseBinOp(node, p) ==
    UnparseExpr(node.left, IF node.op = "Pow" THEN p + 1 ELSE p)
      \o <<OpTok(TokOfOp(node.op))>>
      \o UnparseExpr(node.right, IF node.op = "Pow" THEN p ELSE p + 1)

UnparseList(nodes, sep) ==
    Flatten([k \in 1..Len(nodes) |->
               (IF k > 1 THEN sep ELSE <<>>) \o UnparseExpr(nodes[k], Prec("Test"))])

UnparseBody(node) ==
    CASE node.kind = "Name" -> <<NameTok(node.id)>>
      [] node.kind = "Constant" -> <<NumTok(node.value)>>
      [] node.kind = "Str" -> <<StrTok(node.s)>>
      [] node.kind = "BinOp" -> UnparseBinOp(node, Precedence(node))
      [] node.kind = "Call" ->
            UnparseExpr(node.func, Prec("Atom")) \o <<OpTok("(")>>
              \o UnparseList(node.args, <<OpTok(",")>>) \o <<OpTok(")")>>
      [] node.kind = "Attribute" ->
            UnparseExpr(node.base, Prec("Atom")) \o <<OpTok("."), NameTok(node.attr)>>
      [] node.kind = "Tuple" -> UnparseList(node.elts, <<OpTok(",")>>)

UnparseExpr(node, level) == Delimit(Precedence(node) < level, UnparseBody(node))

UnparseSimple(st, indent) ==
    IF st.kind = "Assign"
    THEN Line(indent,
              Flatten([k \in 1..Len(st.targets) |->
                         UnparseExpr(st.targets[k], Prec("Tuple")) \o <<OpTok("=")>>])
                \o UnparseExpr(st.value, Prec("Test")))
    ELSE Line(indent, UnparseExpr(st.value, Prec("Test")))

UnparseStmt(st) ==
    IF st.kind = "FunctionDef"
    THEN <<Line(0, <<NameTok("def"), NameTok(st.name), OpTok("("), OpTok(")"), OpTok(":")>>)>>
           \o [k \in 1..Len(st.body) |-> UnparseSimple(st.body[k], 1)]
    ELSE <<UnparseSimple(st, 0)>>

ast_unparse(tree) == Flatten([k \in 1..Len(tree.body) |-> UnparseStmt(tree.body[k])])

(***************************************************************************)
(* The symbolic engine (sympy), on the expressions whose value is a        *)
(* monomial n/d * x**ex * y**ey with n >= 0: sums and differences of like  *)
(* terms, products, quotients and integer powers.  A value outside this    *)
(* class is reported as Unmodelled and no input of the model produces one. *)
(***************************************************************************)
RECURSIVE Gcd(_, _)
Gcd(a, b) == IF b = 0 THEN a ELSE Gcd(b, a % b)

RECURSIVE IntPow(_, _)
IntPow(b, e) == IF e = 0 THEN 1 ELSE b * IntPow(b, e - 1)

Reduced(n, d, g, ex, ey) ==
    [ok |-> TRUE, n |-> n \div g, d |-> d \div g, ex |-> ex, ey |-> ey]

Mono(n, d, ex, ey) ==
    IF n = 0 THEN [ok |-> TRUE, n |-> 0, d |-> 1, ex |-> 0, ey |-> 0]
    ELSE Reduced(n, d, Gcd(n, d), ex, ey)

EngineError == [ok |-> FALSE, err |-> "SympifyError"]

Unmodelled == [ok |-> FALSE, err |-> "Unmodelled"]

Zero == [ok |-> TRUE, n |-> 0, d |-> 1, ex |-> 0, ey |-> 0]

IsInteger(m) == m.d = 1 /\ m.ex = 0 /\ m.ey = 0

LikeTerms(a, b) == a.ex = b.ex /\ a.ey = b.ey

\* Largest exponent and largest coefficient the arithmetic is carried out on.
MaxExponent == 16

MaxCoefficient == 4096

\* Whether b**e is at most limit (b >= 0).
RECURSIVE PowFits(_, _, _)
PowFits(b, e, limit) ==
    e = 0 \/ b = 0 \/ (b <= limit /\ PowFits(b, e - 1, limit \div b))

Small(m) == m.n <= MaxCoefficient /\ m.d <= MaxCoefficient

SymApply(op, a, b) ==
    CASE op = "Add" ->
            IF a = Zero THEN b
            ELSE IF b = Zero THEN a
            ELSE IF LikeTerms(a, b) THEN Mono(a.n * b.d + b.n * a.d, a.d * b.d, a.ex, a.ey)
            ELSE Unmodelled
      [] op = "Sub" ->
            IF b = Zero THEN a
            ELSE IF LikeTerms(a, b) /\ a.n * b.d >= b.n * a.d
            THEN Mono(a.n * b.d - b.n * a.d, a.d * b.d, a.ex, a.ey)
            ELSE Unmodelled
      [] op = "Mult" -> Mono(a.n * b.n, a.d * b.d, a.ex + b.ex, a.ey + b.ey)
      [] op = "Div" ->
            IF b = Zero \/ (a # Zero /\ (a.ex < b.ex \/ a.ey < b.ey)) THEN Unmodelled
            ELSE Mono(a.n * b.d, a.d * b.n, a.ex - b.ex, a.ey - b.ey)
      [] op = "Pow" ->
            IF ~IsInteger(b) \/ b.n > MaxExponent
               \/ ~PowFits(a.n, b.n, MaxCoefficient) \/ ~PowFits(a.d, b.n, MaxCoefficient)
            THEN Unmodelled
            ELSE Mono(IntPow(a.n, b.n), IntPow(a.d, b.n), a.ex * b.n, a.ey * b.n)

\* The operation on two values, with the arithmetic kept within the bounds.
SymBinOp(op, a, b) ==
    IF ~a.ok THEN a
    ELSE IF ~b.ok THEN b
    ELSE IF ~Small(a) \/ ~Small(b) THEN Unmodelled
    ELSE SymApply(op, a, b)

\* The value the engine builds from a parsed expression.  An attribute access
\* on a symbol is rejected; calls, strings and tuples are outside the class.
RECURSIVE SymEval(_)
SymEval(node) ==
    CASE node.kind = "Constant" -> Mono(node.value, 1, 0, 0)
      [] node.kind = "Name" ->
            IF node.id = "x" THEN Mono(1, 1, 1, 0)
            ELSE IF node.id = "y" THEN Mono(1, 1, 0, 1)
            ELSE Unmodelled
      [] node.kind = "BinOp" -> SymBinOp(node.op, SymEval(node.left), SymEval(node.right))
      [] node.kind = "Attribute" -> EngineError
      [] OTHER -> Unmodelled

SymOf(e) == IF e.ok THEN SymEval(e.node) ELSE EngineError

\* sympify(text): parse the text, build the value.
sympify(toks) == SymOf(ParseExpression(toks))

\* simplify, factor and expand each return a monomial as it is.
simplify(m) == m

factor(m) == m

expand(m) == m

SymExp(m, v) == IF v = "x" THEN m.ex ELSE IF v = "y" THEN m.ey ELSE 0

\* diff(m, v): the first derivative with respect to the symbol named v.
sym_diff(m, v) ==
    IF SymExp(m, v) = 0 THEN Zero
    ELSE Mono(m.n * SymExp(m, v), m.d,
              IF v = "x" THEN m.ex - 1 ELSE m.ex,
              IF v = "y" THEN m.ey - 1 ELSE m.ey)

\* integrate(m, v): the antiderivative with respect to v, no constant added.
sym_int(m, v) ==
    IF v \notin {"x", "y"} THEN Unmodelled
    ELSE Mono(m.n, m.d * (SymExp(m, v) + 1),
              IF v = "x" THEN m.ex + 1 ELSE m.ex,
              IF v = "y" THEN m.ey + 1 ELSE m.ey)

\* str(m): coefficient numerator, then the symbols in name order, then the
\* denominator: 16, 3*x**2, x**3/3, 2*x*y/3, 1/2.
SymPower(v, e) ==
    IF e = 0 THEN <<>>
    ELSE IF e = 1 THEN <<<<NameTok(v)>>>>
    ELSE <<<<NameTok(v), OpTok("**"), NumTok(e)>>>>

RECURSIVE JoinToks(_, _)
JoinToks(items, sep) ==
    IF items = <<>> THEN <<>>
    ELSE IF Len(items) = 1 THEN items[1]
    ELSE items[1] \o <<sep>> \o JoinToks(Tail(items), sep)

Numerator(n, syms) ==
    IF n = 1 /\ syms # <<>> THEN syms ELSE <<<<NumTok(n)>>>> \o syms

sym_str(m) ==
    JoinToks(Numerator(m.n, SymPower("x", m.ex) \o SymPower("y", m.ey)), OpTok("*"))
      \o (IF m.d = 1 THEN <<>> ELSE <<OpTok("/"), NumTok(m.d)>>)

(***************************************************************************)
(* parser.py: MathExtractor.                                               *)
(***************************************************************************)
\* The child nodes of a node, in field order.
Children(node) ==
    CASE node.kind = "BinOp" -> <<node.left, node.right>>
      [] node.kind = "Call" -> <<node.func>> \o node.args
      [] node.kind = "Attribute" -> <<node.base>>
      [] node.kind = "Tuple" -> node.elts
      [] node.kind = "Assign" -> node.targets \o <<node.value>>
      [] node.kind = "Expr" -> <<node.value>>
      [] node.kind \in {"FunctionDef", "Module"} -> node.body
      [] OTHER -> <<>>

RECURSIVE ExtractorVisit(_)

ExtractorChildren(kids) == Flatten([k \in 1..Len(kids) |-> ExtractorVisit(kids[k])])

\* MathExtractor.visit: every BinOp node, a node before the nodes below it.
ExtractorVisit(node) ==
    (IF node.kind = "BinOp" THEN <<node>> ELSE <<>>) \o ExtractorChildren(Children(node))

Extracted(p) ==
    IF p.ok THEN [ok |-> TRUE, tree |-> p.tree, nodes |-> ExtractorVisit(p.tree)]
    ELSE [ok |-> FALSE, tree |-> Nil, nodes |-> <<>>]

\* MathExtractor.extract(source): (tree, list_of_binops), or the SyntaxError.
extract(source) == Extracted(ast_parse(source))

(***************************************************************************)
(* optimizer.py: MathOptimizer.                                            *)
(***************************************************************************)
\* The transforms of optimize_node, in order.
Pipeline(sym_expr, expand_polynomials) ==
    IF expand_polynomials THEN expand(factor(simplify(sym_expr)))
    ELSE factor(simplify(sym_expr))

\* Back to AST: ast.parse(str(final)).body[0].value
NodeOf(final) == ParseExpression(sym_str(final)).node

Optimized(sym_expr, expand_polynomials) ==
    IF ~sym_expr.ok THEN [ok |-> FALSE, node |-> Nil, err |-> sym_expr.err]
    ELSE [ok |-> TRUE, node |-> NodeOf(Pipeline(sym_expr, expand_polynomials)), err |-> ""]

\* optimize_node: text of the node, into the engine, simplify, factor,
\* expand if asked, and the result's text parsed back into a node.
optimize_node(node, expand_polynomials) ==
    Optimized(sympify(UnparseExpr(node, Prec("Test"))), expand_polynomials)

\* A step from a node to one of its children: the field and, in a list, the index.
Step(f, k) == [f |-> f, k |-> k]

\* The steps to the children of a node, in the order of Children.
ChildSteps(node) ==
    CASE node.kind = "BinOp" -> <<Step("left", 0), Step("right", 0)>>
      [] node.kind = "Call" ->
            <<Step("func", 0)>> \o [k \in 1..Len(node.args) |-> Step("args", k)]
      [] node.kind = "Attribute" -> <<Step("value", 0)>>
      [] node.kind = "Tuple" -> [k \in 1..Len(node.elts) |-> Step("elts", k)]
      [] node.kind = "Assign" ->
            [k \in 1..Len(node.targets) |-> Step("targets", k)] \o <<Step("value", 0)>>
      [] node.kind = "Expr" -> <<Step("value", 0)>>
      [] node.kind \in {"FunctionDef", "Module"} ->
            [k \in 1..Len(node.body) |-> Step("body", k)]
      [] OTHER -> <<>>

\* The node with its children replaced by kids (in the order of Children).
WithChildren(node, kids) ==
    CASE node.kind = "BinOp" -> [node EXCEPT !.left = kids[1], !.right = kids[2]]
      [] node.kind = "Call" -> [node EXCEPT !.func = kids[1], !.args = Tail(kids)]
      [] node.kind = "Attribute" -> [node EXCEPT !.base = kids[1]]
      [] node.kind = "Tuple" -> [node EXCEPT !.elts = kids]
      [] node.kind = "Assign" ->
            [node EXCEPT !.targets = SubSeq(kids, 1, Len(kids) - 1),
                         !.value = kids[Len(kids)]]
      [] node.kind = "Expr" -> [node EXCEPT !.value = kids[1]]
      [] node.kind \in {"FunctionDef", "Module"} -> [node EXCEPT !.body = kids]
      [] OTHER -> node

\* A visit's outcome: the node returned and the calls of optimize_node made,
\* each with the place (in the tree given to optimize_tree) of the node it was
\* called for and the node as it was passed; or the exception raised.
Visited(node, calls) == [ok |-> TRUE, node |-> node, calls |-> calls, err |-> ""]

Raised(err, calls) == [ok |-> FALSE, node |-> Nil, calls |-> calls, err |-> err]

RECURSIVE TransformerVisit(_, _, _)
RECURSIVE VisitChildren(_, _, _, _, _, _)

ChildVisited(node, path, expand_polynomials, k, kids, calls, r) ==
    IF r.ok
    THEN VisitChildren(node, path, expand_polynomials, k + 1,
                       Append(kids, r.node), calls \o r.calls)
    ELSE Raised(r.err, calls \o r.calls)

\* NodeTransformer.generic_visit: the children visited in field order, each
\* replaced by what its visit returns; an exception ends the walk.
VisitChildren(node, path, expand_polynomials, k, kids, calls) ==
    IF k > Len(Children(node)) THEN Visited(WithChildren(node, kids), calls)
    ELSE ChildVisited(node, path, expand_polynomials, k, kids, calls,
                      TransformerVisit(Children(node)[k], Append(path, ChildSteps(node)[k]),
                                       expand_polynomials))

generic_visit(node, path, expand_polynomials) ==
    VisitChildren(node, path, expand_polynomials, 1, <<>>, <<>>)

\* The call optimize_node(node) made for the node at path.
CallRecord(path, node) == [path |-> path, node |-> node]

Replaced(calls, o) == IF o.ok THEN Visited(o.node, calls) ELSE Raised(o.err, calls)

\* return self.optimizer.optimize_node(node), node being what generic_visit returned.
OptimizeVisited(g, path, expand_polynomials) ==
    IF ~g.ok THEN g
    ELSE Replaced(Append(g.calls, CallRecord(path, g.node)),
                  optimize_node(g.node, expand_polynomials))

\* visit_BinOp without its generic_visit: the node as it came, optimized.
OptimizeUnvisited(node, path, expand_polynomials) ==
    Replaced(<<CallRecord(path, node)>>, optimize_node(node, expand_polynomials))

\* Transformer.visit_BinOp: the children first, then the node itself.
visit_BinOp(node, path, expand_polynomials) ==
    OptimizeVisited(generic_visit(node, path, expand_polynomials), path, expand_polynomials)

\* A transformer whose optimizing method is also met for names and constants.
MethodForOperands(node) ==
    IF node.kind \in {"BinOp", "Name", "Constant"} THEN "visit_BinOp" ELSE "generic_visit"

\* NodeVisitor.visit: the method named after the node's class, if there is one.
TransformerMethod(node) ==
    IF node.kind = "BinOp" THEN "visit_BinOp" ELSE "generic_visit"

TransformerVisit(node, path, expand_polynomials) ==
    IF TransformerMethod(node) = "visit_BinOp"
    THEN visit_BinOp(node, path, expand_polynomials)
    ELSE generic_visit(node, path, expand_polynomials)

optimize_tree(tree, expand_polynomials) == TransformerVisit(tree, <<>>, expand_polynomials)

(***************************************************************************)
(* main.py: CalcTransformer (the class defined inside process_file).       *)
(***************************************************************************)
StepDone(value) == [ok |-> TRUE, value |-> value, err |-> ""]

StepRaised(err) == [ok |-> FALSE, value |-> Nil, err |-> err]

\* node.value = ast.parse(str(res)).body[0].value
StepStored(res) == IF res.ok THEN StepDone(NodeOf(res)) ELSE StepRaised(res.err)

StepOn(op, expr, varname) ==
    IF ~expr.ok THEN StepRaised(expr.err)
    ELSE StepStored(IF op = "diff" THEN sym_diff(expr, varname) ELSE sym_int(expr, varname))

\* One symbolic step on an assignment's value: the value's text into the
\* engine, the derivative or antiderivative in varname, its text parsed back.
CalcStep(op, value, varname) ==
    StepOn(op, sympify(UnparseExpr(value, Prec("Test"))), varname)

\* A filter that passes listed lines only, an empty one none.
LineListed(lineno, diff_lines) == lineno \in diff_lines

\* The filter of visit_Assign on the line number.
LineSelected(lineno, diff_lines) == diff_lines = {} \/ lineno \in diff_lines

\* An integration step that reads the value the assignment had at first.
IntOfOriginal(original, current) == original

\* The value the integration step reads, given the original value and the
\* value after the differentiation step: node.value as it is by then.
IntInput(original, current) == current

\* The symbol a step differentiates or integrates in.
WithRespectTo(varname) == varname

\* What visit_Assign looks at to decide whether the assignment is a candidate.
CandidateTarget(node) == node.targets[1]

\* A step's record: which step ran at which line, in which symbol, on which
\* value, and the value it stored.
StepRecord(op, lineno, wrt, arg, res) ==
    [op |-> op, lineno |-> lineno, wrt |-> wrt, arg |-> arg, res |-> res]

CalcDone(node, log) == [ok |-> TRUE, node |-> node, log |-> log, err |-> ""]

CalcRaised(err, log) == [ok |-> FALSE, node |-> Nil, log |-> log, err |-> err]

\* After "if do_int": a is the integration step's outcome on input.
AfterInt(node, varname, do_int, dlog, input, a) ==
    IF ~a.ok THEN CalcRaised(a.err, dlog)
    ELSE CalcDone([node EXCEPT !.value = a.value],
                  IF do_int
                  THEN Append(dlog, StepRecord("int", node.lineno, WithRespectTo(varname),
                                               input, a.value))
                  ELSE dlog)

IntOn(node, varname, do_int, dlog, current, input) ==
    AfterInt(node, varname, do_int, dlog, input,
             IF do_int THEN CalcStep("int", input, WithRespectTo(varname))
             ELSE StepDone(current))

\* After "if do_diff": d is the differentiation step's outcome.
AfterDiff(node, varname, do_diff, do_int, d) ==
    IF ~d.ok THEN CalcRaised(d.err, <<>>)
    ELSE IntOn(node, varname, do_int,
               IF do_diff
               THEN <<StepRecord("diff", node.lineno, WithRespectTo(varname),
                                 node.value, d.value)>>
               ELSE <<>>,
               d.value, IntInput(node.value, d.value))

DiffOn(node, varname, do_diff, do_int) ==
    AfterDiff(node, varname, do_diff, do_int,
              IF do_diff THEN CalcStep("diff", node.value, WithRespectTo(varname))
              ELSE StepDone(node.value))

AssignOf(node, target, diff_vars, int_vars, diff_lines) ==
    IF target.kind # "Name" THEN CalcDone(node, <<>>)
    ELSE DiffOn(node, target.id,
                target.id \in diff_vars /\ LineSelected(node.lineno, diff_lines),
                target.id \in int_vars /\ LineSelected(node.lineno, diff_lines))

visit_Assign(node, diff_vars, int_vars, diff_lines) ==
    AssignOf(node, CandidateTarget(node), diff_vars, int_vars, diff_lines)

RECURSIVE CalcVisit(_, _, _, _)
RECURSIVE CalcVisitBody(_, _, _, _, _, _, _)

\* A walk over the module's own statements only.
DescendsModuleOnly(node) == node.kind = "Module"

\* The statements generic_visit descends into (the rest hold no statement).
CalcDescends(node) == node.kind \in {"Module", "FunctionDef"}

CalcStmtVisited(node, diff_vars, int_vars, diff_lines, k, kids, log, r) ==
    IF r.ok
    THEN CalcVisitBody(node, diff_vars, int_vars, diff_lines, k + 1,
                       Append(kids, r.node), log \o r.log)
    ELSE CalcRaised(r.err, log \o r.log)

\* NodeTransformer.generic_visit for CalcTransformer: the statements of a body
\* visited in order, an exception ending the walk.
CalcVisitBody(node, diff_vars, int_vars, diff_lines, k, kids, log) ==
    IF k > Len(node.body) THEN CalcDone([node EXCEPT !.body = kids], log)
    ELSE CalcStmtVisited(node, diff_vars, int_vars, diff_lines, k, kids, log,
                         CalcVisit(node.body[k], diff_vars, int_vars, diff_lines))

CalcVisit(node, diff_vars, int_vars, diff_lines) ==
    IF node.kind = "Assign" THEN visit_Assign(node, diff_vars, int_vars, diff_lines)
    ELSE IF CalcDescends(node)
    THEN CalcVisitBody(node, diff_vars, int_vars, diff_lines, 1, <<>>, <<>>)
    ELSE CalcDone(node, <<>>)

(***************************************************************************)
(* main.py: process_file and main.                                         *)
(***************************************************************************)
\* process_file up to the output step: what it computed, or the exception.
FileRaised(stage, err, tree, calc) ==
    [ok |-> FALSE, stage |-> stage, err |-> err, tree |-> tree, calc |-> calc,
     full_src |-> <<>>, optimized |-> <<>>]

\* Whether the symbolic diff/int pass runs at all.
CalcPassRuns(diff_vars, int_vars, diff_lines) ==
    diff_vars # {} \/ int_vars # {} \/ diff_lines # {}

NoCalc(tree) == CalcDone(tree, <<>>)

\* optimized = ast.unparse(optimizer.optimize_tree(tree2))
AfterOptimize(tree, calc, full_src, opt) ==
    IF ~opt.ok THEN FileRaised("optimize", opt.err, tree, calc)
    ELSE [ok |-> TRUE, stage |-> "output", err |-> "", tree |-> tree, calc |-> calc,
          full_src |-> full_src, optimized |-> ast_unparse(opt.node)]

\* tree2, _ = extractor.extract(full_src)
AfterExtract(tree, calc, full_src, ex, expand_polynomials) ==
    IF ~ex.ok THEN FileRaised("extract", "SyntaxError", tree, calc)
    ELSE AfterOptimize(tree, calc, full_src, optimize_tree(ex.tree, expand_polynomials))

\* full_src = ast.unparse(tree)
AfterRender(tree, calc, full_src, expand_polynomials) ==
    AfterExtract(tree, calc, full_src, extract(full_src), expand_polynomials)

AfterCalc(tree, calc, expand_polynomials) ==
    IF ~calc.ok THEN FileRaised("calculus", calc.err, tree, calc)
    ELSE AfterRender(tree, calc, ast_unparse(calc.node), expand_polynomials)

\* tree = ast.parse(src), then the diff/int pass if any option asks for it.
AfterParse(p, expand_polynomials, diff_vars, int_vars, diff_lines) ==
    IF ~p.ok THEN FileRaised("parse", "SyntaxError", Nil, NoCalc(Nil))
    ELSE AfterCalc(p.tree,
                   IF CalcPassRuns(diff_vars, int_vars, diff_lines)
                   THEN CalcVisit(p.tree, diff_vars, int_vars, diff_lines)
                   ELSE NoCalc(p.tree),
                   expand_polynomials)

process_file(src, expand_polynomials, diff_vars, int_vars, diff_lines) ==
    AfterParse(ast_parse(src), expand_polynomials, diff_vars, int_vars, diff_lines)

\* What process_file prints for a file it got through.
Printed(path, r, inplace, show_diff) ==
    IF inplace THEN [what |-> "Updated", path |-> path, text |-> <<>>]
    ELSE IF show_diff
    THEN [what |-> IF r.full_src = r.optimized THEN "No changes" ELSE "diff",
          path |-> path, text |-> r.optimized]
    ELSE [what |-> "code", path |-> path, text |-> r.optimized]

\* Path names and their order as strings.
PathName(k) == CASE k = 1 -> "a.py" [] k = 2 -> "b.py" [] k = 3 -> "c.py" [] k = 4 -> "d.py"

PathRank(name) == CHOOSE k \in 1..4 : PathName(k) = name

\* sorted(paths): ascending.
RECURSIVE Sorted(_)
Sorted(S) ==
    IF S = {} THEN <<>>
    ELSE LET least == CHOOSE q \in S : \A r \in S : PathRank(q) <= PathRank(r)
         IN  <<least>> \o Sorted(S \ {least})

\* A loop that goes on to the next file whatever happened to this one.
AfterFileCaught(ok, i, n) == IF i < n THEN "loop" ELSE "done"

\* Where main stands after process_file returned or raised for paths[i].
AfterFile(ok, i, n) ==
    IF ~ok THEN "crashed" ELSE IF i < n THEN "loop" ELSE "done"

\* The line filter main hands to process_file.
LinesOption(diff_lines_arg) ==
    IF diff_lines_arg # <<>> THEN parse_line_set(diff_lines_arg)
    ELSE [ok |-> TRUE, lines |-> {}]

(***************************************************************************)
(* Variables a specification does not use stay at these values.            *)
(***************************************************************************)
NotCalled == [ok |-> FALSE, lines |-> {-1}]

NotRun == [ok |-> FALSE, node |-> Nil, calls |-> <<>>, err |-> "NotRun"]

NoFile == FileRaised("none", "", Nil, NoCalc(Nil))

LinesIdle == spec = <<>> /\ lines = NotCalled

OptIdle == opt_tree = Nil /\ opt_expand = FALSE /\ opt_result = NotRun

MainIdle ==
    /\ argv = Nil /\ disk = <<>> /\ disk0 = <<>> /\ pc = "idle" /\ lines_set = {}
    /\ paths = <<>> /\ idx = 0 /\ console = <<>> /\ processed = <<>> /\ last = NoFile

(***************************************************************************)
(* Specification of optimize_tree on its own: a one-statement module whose *)
(* expression has up to MaxBinOps binary operations, then the walk.        *)
(***************************************************************************)
OptLeaves == {Name("x"), Constant(2)}

\* An expression the engine rejects.
Rejected == Attribute(Name("obj"), "f")

\* The expressions with exactly k binary operations over the leaves whose
\* value the engine model covers: sums, products and squares.
RECURSIVE ExprsWith(_)
ExprsWith(k) ==
    IF k = 0 THEN OptLeaves
    ELSE {b \in UNION {{BinOp(l, op, r) : l \in ExprsWith(i), r \in ExprsWith(k - 1 - i),
                                          op \in {"Add", "Mult"}} : i \in 0..(k - 1)}
                  \cup {BinOp(l, "Pow", Constant(2)) : l \in ExprsWith(k - 1)} :
            SymEval(b).ok}

\* The same with one rejected operand at the top.
RejectedExprs ==
    {Rejected}
      \cup UNION {{BinOp(e, op, Rejected) : e \in ExprsWith(k), op \in {"Add", "Mult"}}
                    \cup {BinOp(Rejected, op, e) : e \in ExprsWith(k), op \in {"Add", "Mult"}} :
                  k \in 0..(MaxBinOps - 1)}

OptExprs == UNION {ExprsWith(k) : k \in 0..MaxBinOps} \cup RejectedExprs

OptTrees ==
    {Module(<<Assign(<<Name("a")>>, e, 1)>>) : e \in OptExprs}
      \cup {Module(<<Expr(Call(Name("print"), <<e>>), 1)>>) : e \in OptExprs \cup {Str("hello")}}

OptInit ==
    /\ opt_tree \in OptTrees
    /\ opt_expand \in BOOLEAN
    /\ opt_result = NotRun
    /\ LinesIdle
    /\ MainIdle

CallOptimizeTree ==
    /\ opt_result = NotRun
    /\ opt_result' = optimize_tree(opt_tree, opt_expand)
    /\ UNCHANGED <<opt_tree, opt_expand, lineVars, mainVars>>

OptNext == CallOptimizeTree

SpecOpt == OptInit /\ [][OptNext]_vars

OptModelled == opt_result.err # "Unmodelled"

(***************************************************************************)
(* Specification of parse_line_set on its own: any string up to MaxSpecLen *)
(* characters, then the call.                                              *)
(***************************************************************************)
RECURSIVE StringsUpTo(_)
StringsUpTo(n) ==
    IF n = 0 THEN {<<>>}
    ELSE LET shorter == StringsUpTo(n - 1)
         IN  shorter \cup {Append(s, c) : s \in {t \in shorter : Len(t) = n - 1},
                                         c \in SpecChars}

LinesInit ==
    /\ spec \in StringsUpTo(MaxSpecLen)
    /\ lines = NotCalled
    /\ OptIdle
    /\ MainIdle

CallParseLineSet ==
    /\ lines = NotCalled
    /\ lines' = parse_line_set(spec)
    /\ UNCHANGED <<spec, optVars, mainVars>>

LinesNext == CallParseLineSet

SpecLines == LinesInit /\ [][LinesNext]_vars

(***************************************************************************)
(* Specification of main.  The files (text, line by line).                 *)
(***************************************************************************)
Toks_x_eq == <<NameTok("x"), OpTok("=")>>

Toks_y_eq == <<NameTok("y"), OpTok("=")>>

Toks_x_pow(n) == <<NameTok("x"), OpTok("**"), NumTok(n)>>

\* x = 2 * (3 + 5)
\* y = x ** 3
FileDiff ==
    <<Line(0, Toks_x_eq \o <<NumTok(2), OpTok("*"), OpTok("("), NumTok(3), OpTok("+"),
                             NumTok(5), OpTok(")")>>),
      Line(0, Toks_y_eq \o Toks_x_pow(3))>>

\* x = x ** 3
\* def f():
\*     x = x ** 2
\*     y = 5
\* print('hello')
FileNested ==
    <<Line(0, Toks_x_eq \o Toks_x_pow(3)),
      Line(0, <<NameTok("def"), NameTok("f"), OpTok("("), OpTok(")"), OpTok(":")>>),
      Line(1, Toks_x_eq \o Toks_x_pow(2)),
      Line(1, Toks_y_eq \o <<NumTok(5)>>),
      Line(0, <<NameTok("print"), OpTok("("), StrTok("hello"), OpTok(")")>>)>>

\* obj.x = x ** 2
\* x = y = x ** 2
\* x, y = x * y
\* y = 2 * x + 2 * x
FileTargets ==
    <<Line(0, <<NameTok("obj"), OpTok("."), NameTok("x"), OpTok("=")>> \o Toks_x_pow(2)),
      Line(0, Toks_x_eq \o Toks_y_eq \o Toks_x_pow(2)),
      Line(0, <<NameTok("x"), OpTok(","), NameTok("y"), OpTok("="),
                NameTok("x"), OpTok("*"), NameTok("y")>>),
      Line(0, Toks_y_eq \o <<NumTok(2), OpTok("*"), NameTok("x"), OpTok("+"),
                             NumTok(2), OpTok("*"), NameTok("x")>>)>>

\* (blank)
\* y = x * y / 2
\* x = obj.f
FileAttr ==
    <<Line(0, <<>>),
      Line(0, Toks_y_eq \o <<NameTok("x"), OpTok("*"), NameTok("y"), OpTok("/"), NumTok(2)>>),
      Line(0, Toks_x_eq \o <<NameTok("obj"), OpTok("."), NameTok("f")>>)>>

\* y = obj.f * 2
FileBadOpt ==
    <<Line(0, Toks_y_eq \o <<NameTok("obj"), OpTok("."), NameTok("f"), OpTok("*"),
                             NumTok(2)>>)>>

\* x = 2
\* x = * 2
FileSyntax ==
    <<Line(0, Toks_x_eq \o <<NumTok(2)>>),
      Line(0, Toks_x_eq \o <<OpTok("*"), NumTok(2)>>)>>

\* print('hello')
FileHello == <<Line(0, <<NameTok("print"), OpTok("("), StrTok("hello"), OpTok(")")>>)>>

Files == {FileDiff, FileNested, FileTargets, FileAttr, FileBadOpt, FileSyntax, FileHello}

BatchFiles == {FileDiff, FileNested, FileAttr, FileBadOpt, FileSyntax}

VarNames == {"x", "y"}

\* --diff-lines: "", "1", "2-3", "7-5", "," and "x".
LineSpecs ==
    {<<>>, <<"1">>, <<"2", "-", "3">>, <<"7", "-", "5">>, <<",">>, <<"x">>}

Options ==
    [differentiate : SUBSET VarNames, integrate : SUBSET VarNames,
     diff_lines : LineSpecs, inplace : BOOLEAN, diff : BOOLEAN, expand : BOOLEAN]

BatchOptions ==
    [differentiate : {{}, {"x"}}, integrate : {{}}, diff_lines : {<<>>, <<"x">>},
     inplace : BOOLEAN, diff : {TRUE}, expand : {FALSE}]

MainStart ==
    /\ disk0 = disk /\ pc = "start" /\ lines_set = {} /\ paths = <<>> /\ idx = 0
    /\ console = <<>> /\ processed = <<>> /\ last = NoFile
    /\ LinesIdle /\ OptIdle

\* The target is one file.
MainInit ==
    /\ argv \in Options
    /\ disk \in [{PathName(1)} -> Files]
    /\ MainStart

\* The target is a directory of up to MaxFiles files.
BatchInit ==
    /\ argv \in BatchOptions
    /\ \E n \in 1..MaxFiles : disk \in [{PathName(k) : k \in 1..n} -> BatchFiles]
    /\ MainStart

\* main up to the for loop: the options into sets, the line filter parsed,
\* the optimizer built, the paths listed and sorted.
Started(ls) ==
    IF ls.ok
    THEN /\ lines_set' = ls.lines
         /\ paths' = Sorted(DOMAIN disk)
         /\ idx' = 1
         /\ pc' = "loop"
    ELSE /\ pc' = "crashed"
         /\ UNCHANGED <<lines_set, paths, idx>>

Start ==
    /\ pc = "start"
    /\ Started(LinesOption(argv.diff_lines))
    /\ UNCHANGED <<argv, disk, disk0, console, processed, last, lineVars, optVars>>

\* One turn of the for loop: process_file(paths[idx], ...).
\* r: what process_file(path, ...) computed before its output step, or raised.
FileProcessed(path, r) ==
    /\ last' = r
    /\ processed' = Append(processed, path)
    /\ pc' = AfterFile(r.ok, idx, Len(paths))
    /\ idx' = idx + 1
    /\ disk' = IF r.ok /\ argv.inplace THEN [disk EXCEPT ![path] = r.optimized] ELSE disk
    /\ console' = IF r.ok THEN Append(console, Printed(path, r, argv.inplace, argv.diff))
                  ELSE console

ProcessFile ==
    /\ pc = "loop"
    /\ FileProcessed(paths[idx],
                     process_file(disk[paths[idx]], argv.expand, argv.differentiate,
                                  argv.integrate, lines_set))
    /\ UNCHANGED <<argv, disk0, lines_set, paths, lineVars, optVars>>

Next == Start \/ ProcessFile

Spec == MainInit /\ [][Next]_vars

SpecBatch == BatchInit /\ [][Next]_vars

MainModelled == last.err # "Unmodelled"

(***************************************************************************)
(* Properties of parse_line_set (specification SpecLines).                 *)
(***************************************************************************)
\* The places of the commas of s, with the two ends of s.
CommaPlaces(s) == {0, Len(s) + 1} \cup {i \in 1..Len(s) : s[i] = ","}

\* The comma-separated tokens of s: the text between two neighbouring places.
TokensOf(s) ==
    {SubSeq(s, q[1] + 1, q[2] - 1) :
        q \in {r \in CommaPlaces(s) \X CommaPlaces(s) :
                  r[1] < r[2] /\ \A k \in (r[1] + 1)..(r[2] - 1) : s[k] # ","}}

\* The places of t that hold something other than a blank.
Inked(t) == {i \in 1..Len(t) : t[i] # " "}

\* t without the blanks around it.
Trimmed(t) ==
    IF Inked(t) = {} THEN <<>>
    ELSE SubSeq(t, CHOOSE i \in Inked(t) : \A j \in Inked(t) : i <= j,
                   CHOOSE i \in Inked(t) : \A j \in Inked(t) : j <= i)

IsDecimal(t) == t # <<>> /\ \A i \in 1..Len(t) : t[i] \in Digits

RECURSIVE Decimal(_)
Decimal(t) ==
    IF t = <<>> THEN 0 ELSE 10 * Decimal(SubSeq(t, 1, Len(t) - 1)) + DigitVal(t[Len(t)])

\* Whether u (trimmed) is the text of an integer, and the integer it is.
NamesInteger(u) == IsDecimal(u) \/ (u # <<>> /\ u[1] = "-" /\ IsDecimal(Tail(u)))

IntegerNamed(u) == IF u[1] = "-" THEN 0 - Decimal(Tail(u)) ELSE Decimal(u)

HasDash(u) == \E k \in 1..Len(u) : u[k] = "-"

\* The two sides of a token a-b, a ending at the token's first "-".
FirstDash(u) == CHOOSE k \in 1..Len(u) : u[k] = "-" /\ \A j \in 1..(k - 1) : u[j] # "-"

RangeFrom(u) == Trimmed(SubSeq(u, 1, FirstDash(u) - 1))

RangeTo(u) == Trimmed(SubSeq(u, FirstDash(u) + 1, Len(u)))

\* Whether the token u (trimmed, not blank) is an integer or a-b with integers
\* a and b, and the integers it then names.
WellFormed(u) ==
    IF HasDash(u) THEN NamesInteger(RangeFrom(u)) /\ NamesInteger(RangeTo(u))
    ELSE NamesInteger(u)

LinesNamed(u) ==
    IF HasDash(u) THEN IntegerNamed(RangeFrom(u))..IntegerNamed(RangeTo(u))
    ELSE {IntegerNamed(u)}

NamedTokens(s) == {Trimmed(t) : t \in TokensOf(s)} \ {<<>>}

\* C8: parse_line_set(spec) returns exactly the integers named by the
\* comma-separated tokens of spec: a token a-b (a ending at the token's first
\* "-") names every integer from a to b inclusive, an integer token names
\* itself, blank tokens are skipped; "2,5-7" gives {2,5,6,7} and "" gives the
\* empty set; a token that is neither raises an error and no set is returned.
ParseLineSetExact ==
    lines # NotCalled =>
        /\ lines.ok = (\A u \in NamedTokens(spec) : WellFormed(u))
        /\ lines.ok => lines.lines = UNION {LinesNamed(u) : u \in NamedTokens(spec)}
        /\ ~lines.ok => lines = ValueError
        /\ spec = <<"2", ",", "5", "-", "7">> => lines = [ok |-> TRUE, lines |-> {2, 5, 6, 7}]
        /\ spec = <<>> => lines = [ok |-> TRUE, lines |-> {}]

\* "2,5-7" was parsed into {2,5,6,7}.
ParseLineSetExample ==
    /\ spec = <<"2", ",", "5", "-", "7">>
    /\ lines # NotCalled
    /\ lines.ok
    /\ lines.lines = {2, 5, 6, 7}

(***************************************************************************)
(* Properties of optimize_tree (specification SpecOpt).                    *)
(***************************************************************************)
\* The places of the nodes of a tree: the steps leading to each from the root.
RECURSIVE PathsOf(_)
PathsOf(node) ==
    {<<>>} \cup UNION {{<<ChildSteps(node)[k]>> \o p : p \in PathsOf(Children(node)[k])} :
                         k \in 1..Len(Children(node))}

StepInto(node, st) ==
    Children(node)[CHOOSE k \in 1..Len(Children(node)) : ChildSteps(node)[k] = st]

RECURSIVE NodeAt(_, _)
NodeAt(node, path) ==
    IF path = <<>> THEN node ELSE NodeAt(StepInto(node, Head(path)), Tail(path))

BinOpPaths(tree) == {p \in PathsOf(tree) : NodeAt(tree, p).kind = "BinOp"}

IsProperPrefix(p, q) == Len(p) < Len(q) /\ SubSeq(q, 1, Len(p)) = p

\* The places of tree outside every binary operation's subtree.
OutsidePaths(tree) ==
    {p \in PathsOf(tree) :
        \A n \in 0..Len(p) : NodeAt(tree, SubSeq(p, 1, n)).kind # "BinOp"}

\* A node without what is below it.
Shallow(node) == WithChildren(node, [k \in 1..Len(Children(node)) |-> Nil])

\* The operand of the j-th call of optimize_node on the side of step st is
\* what the call for that child returned, or the child itself when the child
\* is no binary operation.
OperandOptimized(calls, j, st) ==
    IF NodeAt(opt_tree, Append(calls[j].path, st)).kind = "BinOp"
    THEN \E i \in 1..(j - 1) :
            /\ calls[i].path = Append(calls[j].path, st)
            /\ StepInto(calls[j].node, st) = optimize_node(calls[i].node, opt_expand).node
    ELSE StepInto(calls[j].node, st) = NodeAt(opt_tree, Append(calls[j].path, st))

\* C4: a tree with no binary operation comes back from optimize_tree equal to
\* what went in, whether expand is on or off, and optimize_node is not called
\* once; in any tree, the nodes outside the binary operations' subtrees come
\* back in place and as they were.
NoBinOpUnchanged ==
    opt_result # NotRun =>
        /\ BinOpPaths(opt_tree) = {} => opt_result = Visited(opt_tree, <<>>)
        /\ opt_result.ok =>
              \A p \in OutsidePaths(opt_tree) :
                  /\ p \in PathsOf(opt_result.node)
                  /\ Shallow(NodeAt(opt_result.node, p)) = Shallow(NodeAt(opt_tree, p))

\* print('hello') went through optimize_tree.
HelloOptimized ==
    /\ opt_tree = Module(<<Expr(Call(Name("print"), <<Str("hello")>>), 1)>>)
    /\ opt_result # NotRun
    /\ opt_result.ok
    /\ opt_result.node = opt_tree

\* C9: optimize_tree works bottom-up: optimize_node is called for places of
\* binary operations of the tree given only, for none twice and, when the walk
\* ends, for each once (what a call returns is not walked again); a call for a
\* node comes after the calls for the nodes below it, and the node it is
\* given has as operands what those calls returned.
BottomUpOnce ==
    opt_result # NotRun =>
        /\ \A j \in 1..Len(opt_result.calls) :
              /\ opt_result.calls[j].path \in BinOpPaths(opt_tree)
              /\ opt_result.calls[j].node.kind = "BinOp"
              /\ OperandOptimized(opt_result.calls, j, Step("left", 0))
              /\ OperandOptimized(opt_result.calls, j, Step("right", 0))
              /\ \A i \in 1..Len(opt_result.calls) :
                    /\ i # j => opt_result.calls[i].path # opt_result.calls[j].path
                    /\ IsProperPrefix(opt_result.calls[j].path, opt_result.calls[i].path)
                          => i < j
        /\ opt_result.ok =>
              {opt_result.calls[j].path : j \in 1..Len(opt_result.calls)}
                  = BinOpPaths(opt_tree)

\* An operation with an operation below it was optimized, and the call for
\* the upper one was given an operand that the lower call had rewritten.
NestedOptimized ==
    /\ opt_result # NotRun
    /\ opt_result.ok
    /\ \E i, j \in 1..Len(opt_result.calls) :
          /\ IsProperPrefix(opt_result.calls[j].path, opt_result.calls[i].path)
          /\ opt_result.calls[j].node # NodeAt(opt_tree, opt_result.calls[j].path)

(***************************************************************************)
(* Properties of the diff/int pass of process_file (specification Spec).   *)
(***************************************************************************)
AssignPaths(tree) == {p \in PathsOf(tree) : NodeAt(tree, p).kind = "Assign"}

\* The last file was parsed and the diff/int pass, if any, went through.
CalcWentThrough == last.tree # Nil /\ last.calc.ok

\* The assignment as ast.parse gave it and as the pass left it.
Before(p) == NodeAt(last.tree, p)

After(p) == NodeAt(last.calc.node, p)

SingleName(a) == Len(a.targets) = 1 /\ a.targets[1].kind = "Name"

LineAdmitted(n) == lines_set = {} \/ n \in lines_set

DiffAsked(v, n) == v \in argv.differentiate /\ LineAdmitted(n)

IntAsked(v, n) == v \in argv.integrate /\ LineAdmitted(n)

\* The steps of kind op the pass made on the assignment of line n.
StepsAt(op, n) ==
    {i \in 1..Len(last.calc.log) :
        last.calc.log[i].op = op /\ last.calc.log[i].lineno = n}

DerivativeOf(value, v) ==
    NodeOf(sym_diff(sympify(UnparseExpr(value, Prec("Test"))), v))

AntiderivativeOf(value, v) ==
    NodeOf(sym_int(sympify(UnparseExpr(value, Prec("Test"))), v))

SelectedBy(a, b, v, n) ==
    /\ Cardinality(StepsAt("diff", n)) = IF DiffAsked(v, n) THEN 1 ELSE 0
    /\ Cardinality(StepsAt("int", n)) = IF IntAsked(v, n) THEN 1 ELSE 0
    /\ \A i \in StepsAt("diff", n) :
          last.calc.log[i].res = DerivativeOf(last.calc.log[i].arg, v)
    /\ \A i \in StepsAt("int", n) :
          last.calc.log[i].res = AntiderivativeOf(last.calc.log[i].arg, v)
    /\ (DiffAsked(v, n) /\ ~IntAsked(v, n)) => b.value = DerivativeOf(a.value, v)
    /\ (~DiffAsked(v, n) /\ IntAsked(v, n)) => b.value = AntiderivativeOf(a.value, v)
    /\ (~DiffAsked(v, n) /\ ~IntAsked(v, n)) => b.value = a.value

ComposedOn(a, b, v) ==
    \E i \in 1..Len(last.calc.log) :
        /\ i + 1 \in 1..Len(last.calc.log)
        /\ last.calc.log[i] =
              StepRecord("diff", a.lineno, v, a.value, DerivativeOf(a.value, v))
        /\ last.calc.log[i + 1] =
              StepRecord("int", a.lineno, v, last.calc.log[i].res,
                         AntiderivativeOf(last.calc.log[i].res, v))
        /\ b.value = last.calc.log[i + 1].res

\* C3: when the target v of an assignment is in diff_vars and in int_vars and
\* the line filter admits its line, the differentiation step runs first and
\* the integration step next, on the value the differentiation step stored:
\* the value left is integrate(differentiate(original, v), v).
DiffThenInt ==
    CalcWentThrough =>
        \A p \in AssignPaths(last.tree) :
            (/\ SingleName(Before(p))
             /\ DiffAsked(Before(p).targets[1].id, Before(p).lineno)
             /\ IntAsked(Before(p).targets[1].id, Before(p).lineno))
                => ComposedOn(Before(p), After(p), Before(p).targets[1].id)

\* x = 2 * (3 + 5) went through both steps: 16 to 0, then 0 to 0, which is
\* neither the 16 it was nor 16 * x, the antiderivative of 16.
BothStepsRan ==
    /\ CalcWentThrough
    /\ disk0[PathName(1)] = FileDiff
    /\ StepsAt("diff", 1) # {}
    /\ StepsAt("int", 1) # {}
    /\ After(<<Step("body", 1)>>).value = Constant(0)

\* C2: selected for differentiation and taken through the pipeline (the
\* pass, rendering, parsing again, optimizing), x = 2 * (3 + 5) comes out as
\* x = 0 and y = x ** 3 as y = 3 * x ** 2, the derivative in x whatever the
\* target is called.
DiffExamples ==
    (/\ pc = "done"
     /\ disk0[PathName(1)] = FileDiff
     /\ argv.differentiate = {"x", "y"}
     /\ argv.integrate = {}
     /\ LineAdmitted(1)
     /\ LineAdmitted(2))
        => /\ last.ok
           /\ last.optimized =
                 <<Line(0, Toks_x_eq \o <<NumTok(0)>>),
                   Line(0, Toks_y_eq \o <<NumTok(3), OpTok("*")>> \o Toks_x_pow(2))>>

\* C5: an assignment with a target that is no name, with several targets, or
\* with a tuple or attribute target, comes out of the pass as it went in,
\* whatever diff_vars, int_vars and the line filter are.
OtherTargetsKept ==
    CalcWentThrough =>
        \A p \in AssignPaths(last.tree) :
            ~SingleName(Before(p)) => After(p) = Before(p)

\* C6 as the specification has it: only the assignments that are the
\* module's own statements are candidates, one inside a function body keeps
\* its value.
TopLevelOnly ==
    CalcWentThrough =>
        \A p \in AssignPaths(last.tree) :
            Len(p) > 1 => After(p) = Before(p)

NestedSelectedBy(a, b, v, n) ==
    /\ (StepsAt("diff", n) # {}) = DiffAsked(v, n)
    /\ (StepsAt("int", n) # {}) = IntAsked(v, n)
    /\ b.value # a.value => (DiffAsked(v, n) \/ IntAsked(v, n))

\* C6, amended: the pass reaches the assignments at every depth; one inside
\* a function body whose first target is a plain name is differentiated or
\* integrated under the rule of the module's own assignments, and keeps its
\* value only when the rule does not select it.
NestedCandidates ==
    CalcWentThrough =>
        \A p \in AssignPaths(last.tree) :
            (Len(p) > 1 /\ Before(p).targets[1].kind = "Name") =>
                NestedSelectedBy(Before(p), After(p), Before(p).targets[1].id,
                                 Before(p).lineno)

\* The x = x ** 2 inside def f() (line 3) was differentiated.
NestedRewritten ==
    /\ CalcWentThrough
    /\ disk0[PathName(1)] = FileNested
    /\ StepsAt("diff", 3) # {}
    /\ After(<<Step("body", 2), Step("body", 1)>>).value
          # Before(<<Step("body", 2), Step("body", 1)>>).value

\* C10: with a --diff-lines that is not empty and that parse_line_set takes,
\* no assignment on a line the option does not list is differentiated or
\* integrated; "7-5" and ",", which list no line, select none.
ListedLinesOnly ==
    (argv.diff_lines # <<>> /\ CalcWentThrough) =>
        \A i \in 1..Len(last.calc.log) : last.calc.log[i].lineno \in lines_set

(***************************************************************************)
(* Properties of main's loop over the files (specification SpecBatch).     *)
(***************************************************************************)
\* Whether anything was printed for the file.
Shown(path) == \E i \in 1..Len(console) : console[i].path = path

Untouched(path) == disk[path] = disk0[path] /\ ~Shown(path)

\* C7: the files are taken one at a time in sorted order; a file whose
\* processing fails (no parse, or the engine rejecting an expression in the
\* diff/int pass or in the optimizer) gets nothing printed and nothing
\* written, --inplace or not; main ends there, and the files after it are
\* neither processed, printed nor written.
FailureStopsBatch ==
    /\ \A i \in 1..Len(paths) : \A j \in 1..Len(paths) :
          i < j => PathRank(paths[i]) < PathRank(paths[j])
    /\ pc # "start" /\ ~(pc = "crashed" /\ processed = <<>>)
          => {paths[i] : i \in 1..Len(paths)} = DOMAIN disk
    /\ processed = SubSeq(paths, 1, Len(processed))
    /\ \A i \in (Len(processed) + 1)..Len(paths) : Untouched(paths[i])
    /\ (last # NoFile /\ ~last.ok) =>
          /\ pc = "crashed"
          /\ Untouched(processed[Len(processed)])
    /\ pc = "crashed" => ~ENABLED Next

\* With --inplace, the first of two files failed: nothing was written and
\* the second file was not processed.
FirstFileFailed ==
    /\ pc = "crashed"
    /\ argv.inplace
    /\ Len(paths) = 2
    /\ processed = <<PathName(1)>>
    /\ ~last.ok
    /\ disk = disk0
    /\ console = <<>>

====
